---- MODULE Spec2Model ----
(***************************************************************************)
(* Per-context vertex-memory arena, polyline cache, streaming upload and   *)
(* deferred drop list of PolylineRenderer (src/PolylineRenderer.cpp).      *)
(*                                                                         *)
(* A memory block is its list of free chunks; a chunk is [offset, size];   *)
(* a cache item is [memoryBlock, offset, size, version] where memoryBlock  *)
(* is the 1-based position of the block in memoryBlocks.  Sizes and        *)
(* offsets are size_t values: arithmetic on them wraps at SizeModulus.     *)
(***************************************************************************)
EXTENDS Integers, Sequences, FiniteSets, TLC

\* Vertices per memory block (the code's 1U<<20, scaled down).
K == 8
\* Number of memory blocks the device can hold; creating one more fails.
MaxBlocks == 2
\* Cache ids (object addresses) 1..NumKeys.
NumKeys == 2
\* Polyline versions 1..MaxVersion.
MaxVersion == 2
\* Number of points of the longest polyline drawn through the known-size
\* path; the shortest has one point.
MaxPoints == 3
\* Largest number of addVertex calls of one upload session.
MaxAdds == 3
\* Largest length of the drop list.
MaxDrops == 1
\* Largest number of chunks handed out at once by direct allocate calls.
MaxHeld == 2
\* Width of size_t in bits (the build's 64, scaled down).
SizeBits == 12

SizeModulus == 2 ^ SizeBits
\* ~size_t(0)
SizeMax == SizeModulus - 1

PolylineSizes == {1, MaxPoints}
Keys == 1 .. NumKeys
Versions == 1 .. MaxVersion
\* Null cache id / null uploadItem pointer.
NoKey == 0
\* Absent hash table entry.
NoItem == [memoryBlock |-> 0, offset |-> 0, size |-> 0, version |-> 0]
\* Null uploadPtr / uploadEnd.
NullPtr == -1

Add(a, b) == (a + b) % SizeModulus
Sub(a, b) == (a - b + SizeModulus) % SizeModulus
Max(a, b) == IF a >= b THEN a ELSE b

VARIABLES
  memoryBlocks,       \* DataItem::memoryBlocks: sequence of free-chunk lists
  vertexData,         \* contents of each block's buffer: slot -> vertex stored
                      \* there since the slot was last allocated, 0 for the
                      \* undefined content of unwritten or free memory
  cacheMap,           \* DataItem::cacheMap: cache id -> cache item or NoItem
  uploadItem,         \* DataItem::uploadItem: cache id of the item being uploaded
  uploadPtr,          \* DataItem::uploadPtr: slot the next vertex goes to
  uploadEnd,          \* DataItem::uploadEnd: slot after the chunk's end
  uploadNumVertices,  \* DataItem::uploadNumVertices
  uploadP0,           \* DataItem::uploadP0
  dropList,           \* PolylineRenderer::dropList
  phase,              \* position in the frame cycle: "frame" or "render"
                      \* ("undefined" once a call outside the upload protocol
                      \* had undefined behaviour)
  held,               \* chunks handed out by direct allocate calls
  life,               \* history, per cache id: "registered" (no drop since its
                      \* entry was created, or never drawn), "dropped" (dropped
                      \* since), "reclaimed" (queued when cleanCache last ran),
                      \* "overdue" (dropped, and cleanCache ran without it queued)
  ret,                \* outcome of the last operation
  other,              \* the DataItem of a second OpenGL context: its
                      \* memoryBlocks and cacheMap, with its phase and life
  copied,             \* vertices copied by glCopyBufferSubData in the
                      \* upload session (0 outside a session)
  singleton           \* the static members refCount and theRenderer, the
                      \* PolylineRenderer objects made so far, and each
                      \* thread's position in acquire() or release()

vars == <<memoryBlocks, vertexData, cacheMap, uploadItem, uploadPtr, uploadEnd,
          uploadNumVertices, uploadP0, dropList, phase, held, life, ret, other, copied,
          singleton>>

FreeChunk(o, s) == [offset |-> o, size |-> s]
CacheItem(b, o, s) == [memoryBlock |-> b, offset |-> o, size |-> s, version |-> 0]

\* MemoryBlock::MemoryBlock(numVertices): one free chunk covering the block.
MemoryBlock(numVertices) == << FreeChunk(0, numVertices) >>

\* A buffer of K unwritten slots.
EmptyBuffer == [s \in 0 .. K - 1 |-> 0]

RemoveAt(seq, i) == SubSeq(seq, 1, i - 1) \o SubSeq(seq, i + 1, Len(seq))
InsertAt(seq, i, e) == SubSeq(seq, 1, i - 1) \o << e >> \o SubSeq(seq, i, Len(seq))

(***************************************************************************)
(* DataItem::allocate                                                      *)
(***************************************************************************)
\* The search loop: best is the chunk tentatively taken, best.mb = 0 and
\* best.size = SizeMax while none is.
\* A scan that finds nothing.
AllocateScanNone(blocks, size, mb, fc, best) == best

RECURSIVE AllocateScan(_, _, _, _, _)
AllocateScan(blocks, size, mb, fc, best) ==
  IF mb > Len(blocks) THEN best
  ELSE IF fc > Len(blocks[mb]) THEN AllocateScan(blocks, size, mb + 1, 1, best)
  ELSE LET c == blocks[mb][fc] IN
    IF c.size >= size /\ best.size > c.size
      THEN IF c.size = size
             THEN [mb |-> mb, fc |-> fc, size |-> c.size]
             ELSE AllocateScan(blocks, size, mb, fc + 1,
                               [mb |-> mb, fc |-> fc, size |-> c.size])
      ELSE AllocateScan(blocks, size, mb, fc + 1, best)

\* Taking the whole chunk found, whatever its size.
TakeChunkWhole(blocks, best, size) ==
  [blocks EXCEPT ![best.mb] = RemoveAt(blocks[best.mb], best.fc)]

\* Taking `size` vertices from the chunk found: shrink it or erase it.
TakeChunk(blocks, best, size) ==
  LET c == blocks[best.mb][best.fc] IN
  IF best.size > size
    THEN [blocks EXCEPT ![best.mb][best.fc] =
            FreeChunk(Add(c.offset, size), Sub(c.size, size))]
    ELSE [blocks EXCEPT ![best.mb] = RemoveAt(blocks[best.mb], best.fc)]

\* allocate(size); canCreate tells whether creating a memory block succeeds.
\* Result: [threw, blocks, item, created].
Allocate(blocks, size, canCreate) ==
  LET found == AllocateScan(blocks, size, 1, 1, [mb |-> 0, fc |-> 0, size |-> SizeMax])
      create == found.size = SizeMax
      blocks1 == IF create THEN Append(blocks, MemoryBlock(K)) ELSE blocks
      best == IF create THEN [mb |-> Len(blocks1), fc |-> 1, size |-> K] ELSE found
  IN IF create /\ ~canCreate
       THEN [threw |-> TRUE, blocks |-> blocks, item |-> NoItem, created |-> FALSE]
       ELSE [threw |-> FALSE,
             blocks |-> TakeChunk(blocks1, best, size),
             item |-> CacheItem(best.mb, blocks1[best.mb][best.fc].offset, size),
             created |-> create]

(***************************************************************************)
(* DataItem::allocateLargest                                               *)
(***************************************************************************)
\* A scan that keeps the last free chunk of the first block that has one.
LargestScanLast(blocks, mb, fc, best) ==
  IF \E b \in 1 .. Len(blocks) : blocks[b] # << >>
    THEN LET b == CHOOSE c \in 1 .. Len(blocks) :
                    blocks[c] # << >> /\ \A d \in 1 .. c - 1 : blocks[d] = << >>
         IN [mb |-> b, fc |-> Len(blocks[b]), size |-> blocks[b][Len(blocks[b])].size]
    ELSE best

RECURSIVE LargestScan(_, _, _, _)
LargestScan(blocks, mb, fc, best) ==
  IF mb > Len(blocks) THEN best
  ELSE IF fc > Len(blocks[mb]) THEN LargestScan(blocks, mb + 1, 1, best)
  ELSE LET c == blocks[mb][fc] IN
    IF best.size < c.size
      THEN LargestScan(blocks, mb, fc + 1, [mb |-> mb, fc |-> fc, size |-> c.size])
      ELSE LargestScan(blocks, mb, fc + 1, best)

AllocateLargest(blocks, minSize, canCreate) ==
  LET found == LargestScan(blocks, 1, 1, [mb |-> 0, fc |-> 0, size |-> 0])
      create == found.size < minSize
      blocks1 == IF create THEN Append(blocks, MemoryBlock(K)) ELSE blocks
      best == IF create THEN [mb |-> Len(blocks1), fc |-> 1, size |-> K] ELSE found
  IN IF create /\ ~canCreate
       THEN [threw |-> TRUE, blocks |-> blocks, item |-> NoItem, created |-> FALSE]
       ELSE [threw |-> FALSE,
             blocks |-> [blocks1 EXCEPT ![best.mb] = RemoveAt(blocks1[best.mb], best.fc)],
             item |-> CacheItem(best.mb, blocks1[best.mb][best.fc].offset, best.size),
             created |-> create]

(***************************************************************************)
(* DataItem::release                                                       *)
(***************************************************************************)
ReleaseSlotFirst(freeChunks, offset, i) == i

\* Position of the first free chunk whose offset is not below `offset`.
RECURSIVE ReleaseSlot(_, _, _)
ReleaseSlot(freeChunks, offset, i) ==
  IF i <= Len(freeChunks) /\ freeChunks[i].offset < offset
    THEN ReleaseSlot(freeChunks, offset, i + 1)
    ELSE i

ReleaseNoMergeRight(freeChunks, item) ==
  LET i == ReleaseSlot(freeChunks, item.offset, 1)
      mergeLeft == i # 1 /\ Add(freeChunks[i - 1].offset, freeChunks[i - 1].size) = item.offset
  IN IF mergeLeft
       THEN [freeChunks EXCEPT ![i - 1].size = Add(@, item.size)]
       ELSE InsertAt(freeChunks, i, FreeChunk(item.offset, item.size))

ReleaseChunk(freeChunks, item) ==
  LET i == ReleaseSlot(freeChunks, item.offset, 1)
      mergeLeft == i # 1 /\ Add(freeChunks[i - 1].offset, freeChunks[i - 1].size) = item.offset
      mergeRight == i # Len(freeChunks) + 1 /\ freeChunks[i].offset = Add(item.offset, item.size)
  IN IF mergeLeft /\ mergeRight
       THEN RemoveAt([freeChunks EXCEPT ![i - 1].size =
                        Add(@, Add(item.size, freeChunks[i].size))], i)
     ELSE IF mergeLeft
       THEN [freeChunks EXCEPT ![i - 1].size = Add(@, item.size)]
     ELSE IF mergeRight
       THEN [freeChunks EXCEPT ![i] = FreeChunk(Sub(@.offset, item.size),
                                                 Add(@.size, item.size))]
     ELSE InsertAt(freeChunks, i, FreeChunk(item.offset, item.size))

\* release that also gives back the last block when it has become entirely free.
ReleaseAndShrink(blocks, item) ==
  LET after == [blocks EXCEPT ![item.memoryBlock] = ReleaseChunk(@, item)]
  IN IF Len(after) > 1 /\ after[Len(after)] = MemoryBlock(K)
       THEN SubSeq(after, 1, Len(after) - 1)
       ELSE after

Release(blocks, item) ==
  [blocks EXCEPT ![item.memoryBlock] = ReleaseChunk(@, item)]

(***************************************************************************)
(* Construction                                                            *)
(***************************************************************************)
\* The outcome of an operation: its name and arguments, whether it asked for
\* an upload, whether it threw, the range it drew, whether its cache id had
\* an entry and what `life` said of the id when it was called, and the cache
\* ids cleanCache removed; for a direct call of the allocator, the size asked
\* for and the chunk returned.
NoRet == [op |-> "none", key |-> NoKey, version |-> 0, upload |-> FALSE,
          threw |-> FALSE, drawn |-> << >>, had |-> FALSE, was |-> "",
          removed |-> {}, size |-> 0, item |-> NoItem]

\* The DataItem initContext creates for a second context.
OtherInit ==
  [memoryBlocks |-> << MemoryBlock(K) >>,
   cacheMap |-> [k \in Keys |-> NoItem],
   phase |-> "frame",
   life |-> [k \in Keys |-> "registered"]]

\* DataItem::DataItem creates the first memory block; nothing is cached,
\* no upload is active, the drop list is empty.
\* The static members before the first acquire(): no reference, no object,
\* every thread outside the two functions and holding no pointer.
NumThreads == 2
MaxInstances == 3
Threads == 1 .. NumThreads
NullRenderer == 0

SingletonInit ==
  [refCount |-> 0, theRenderer |-> NullRenderer, made |-> 0, alive |-> {},
   twice |-> FALSE, pc |-> [t \in Threads |-> "out"],
   got |-> [t \in Threads |-> NullRenderer]]

Init ==
  /\ memoryBlocks = << MemoryBlock(K) >>
  /\ vertexData = << EmptyBuffer >>
  /\ cacheMap = [k \in Keys |-> NoItem]
  /\ uploadItem = NoKey
  /\ uploadPtr = NullPtr
  /\ uploadEnd = NullPtr
  /\ uploadNumVertices = 0
  /\ uploadP0 = 0
  /\ dropList = << >>
  /\ phase = "frame"
  /\ held = {}
  /\ life = [k \in Keys |-> "registered"]
  /\ ret = NoRet
  /\ other = OtherInit
  /\ copied = 0
  /\ singleton = SingletonInit

\* The buffers of the blocks, one more when a block was created.
Buffers2(data, blocks) ==
  IF Len(blocks) > Len(data) THEN Append(data, EmptyBuffer) ELSE data

Buffers(blocks) == Buffers2(vertexData, blocks)

\* Whether creating a memory block can succeed: the device holds MaxBlocks
\* blocks at most, and creation may fail before that.
CanCreate == IF Len(memoryBlocks) < MaxBlocks THEN BOOLEAN ELSE {FALSE}

(***************************************************************************)
(* The allocator driven directly: allocate, allocateLargest, release.      *)
(***************************************************************************)
ContextUnchanged ==
  UNCHANGED <<cacheMap, uploadItem, uploadPtr, uploadEnd, uploadNumVertices,
              uploadP0, dropList, phase, life, other, copied, singleton>>

ArenaAllocate ==
  \E size \in 1 .. K, canCreate \in CanCreate :
    LET r == Allocate(memoryBlocks, size, canCreate) IN
    /\ Cardinality(held) < MaxHeld
    /\ memoryBlocks' = r.blocks
    /\ vertexData' = Buffers(r.blocks)
    /\ held' = IF r.threw THEN held ELSE held \cup {r.item}
    /\ ret' = [NoRet EXCEPT !.op = "allocate", !.threw = r.threw]
    /\ ContextUnchanged

ArenaAllocateLargest ==
  \E minSize \in 1 .. K, canCreate \in CanCreate :
    LET r == AllocateLargest(memoryBlocks, minSize, canCreate) IN
    /\ Cardinality(held) < MaxHeld
    /\ memoryBlocks' = r.blocks
    /\ vertexData' = Buffers(r.blocks)
    /\ held' = IF r.threw THEN held ELSE held \cup {r.item}
    /\ ret' = [NoRet EXCEPT !.op = "allocateLargest", !.threw = r.threw]
    /\ ContextUnchanged

ArenaRelease ==
  \E item \in held :
    /\ memoryBlocks' = Release(memoryBlocks, item)
    /\ held' = held \ {item}
    /\ ret' = [NoRet EXCEPT !.op = "release"]
    /\ UNCHANGED vertexData
    /\ ContextUnchanged

ArenaNext == ArenaAllocate \/ ArenaAllocateLargest \/ ArenaRelease

SpecArena == Init /\ [][ArenaNext]_vars

(***************************************************************************)
(* The allocator driven with any request a size_t argument can carry: the  *)
(* sizes 1 .. K and one size above the capacity of a block.                *)
(***************************************************************************)
RequestSizes == 1 .. K + 1

AllocateAny ==
  \E size \in RequestSizes, canCreate \in CanCreate :
    LET r == Allocate(memoryBlocks, size, canCreate) IN
    /\ Cardinality(held) < MaxHeld
    /\ memoryBlocks' = r.blocks
    /\ vertexData' = Buffers(r.blocks)
    /\ held' = IF r.threw THEN held ELSE held \cup {r.item}
    /\ ret' = [NoRet EXCEPT !.op = "allocate", !.threw = r.threw,
                            !.size = size, !.item = r.item]
    /\ ContextUnchanged

AllocateLargestAny ==
  \E minSize \in RequestSizes, canCreate \in CanCreate :
    LET r == AllocateLargest(memoryBlocks, minSize, canCreate) IN
    /\ Cardinality(held) < MaxHeld
    /\ memoryBlocks' = r.blocks
    /\ vertexData' = Buffers(r.blocks)
    /\ held' = IF r.threw THEN held ELSE held \cup {r.item}
    /\ ret' = [NoRet EXCEPT !.op = "allocateLargest", !.threw = r.threw,
                            !.size = minSize, !.item = r.item]
    /\ ContextUnchanged

ReleaseAny ==
  \E item \in held :
    /\ memoryBlocks' = Release(memoryBlocks, item)
    /\ held' = held \ {item}
    /\ ret' = [NoRet EXCEPT !.op = "release", !.item = item]
    /\ UNCHANGED vertexData
    /\ ContextUnchanged

ArenaAnyNext == AllocateAny \/ AllocateLargestAny \/ ReleaseAny

SpecArenaAny == Init /\ [][ArenaAnyNext]_vars

(***************************************************************************)
(* The context driven through PolylineRenderer: the frame cycle            *)
(* cleanCache (pre-render), draws, clearDropList (post-render), with drop  *)
(* callable at any time.  Callers follow the upload protocol: addVertex    *)
(* and finish only inside a session, at least one addVertex per session,   *)
(* no other draw inside a session.  An exception ends the run.             *)
(***************************************************************************)
\* One store into a mapped buffer; a store outside the buffer is not kept.
WriteVertex(data, b, slot, v) ==
  IF b \in 1 .. Len(data) /\ slot \in 0 .. K - 1
    THEN [data EXCEPT ![b][slot] = v]
    ELSE data

\* The content of a chunk given back to the free list is undefined from then on.
Scrub(data, item) ==
  [b \in 1 .. Len(data) |->
     [s \in 0 .. K - 1 |->
        IF b = item.memoryBlock /\ Sub(s, item.offset) < item.size
          THEN 0 ELSE data[b][s]]]

RECURSIVE WriteVertices(_, _, _, _)
WriteVertices(data, b, slot, vs) ==
  IF vs = << >> THEN data
  ELSE WriteVertices(WriteVertex(data, b, slot, Head(vs)), b, slot + 1, Tail(vs))

\* The polyline with n points; its i-th point is named i.
Polyline(n) == [i \in 1 .. n |-> i]

\* What draw (known size) stores for a polyline: the first point, all points
\* (the only point twice), the last point.
UploadedVertices(polyline) ==
  << polyline[1] >>
  \o (IF Len(polyline) > 1 THEN polyline ELSE << polyline[1], polyline[Len(polyline)] >>)
  \o << polyline[Len(polyline)] >>

\* The range glDrawArrays is issued over.
Drawn(item) == << item.memoryBlock, item.offset, item.size >>

\* The version test of the draws: the entry exists with another version.
StaleAlways(old, version) == old # NoItem

Stale(old, version) == old # NoItem /\ old.version # version

\* cacheItem.version=version
VersionedNot(item, version) == item

Versioned(item, version) == [item EXCEPT !.version = version]

NoUpload == UNCHANGED <<uploadItem, uploadPtr, uploadEnd, uploadNumVertices, uploadP0>>

\* A draw that creates the entry of its cache id registers the id anew.
Registered(id) == life' = [life EXCEPT ![id] = "registered"]

\* draw(cacheId, version, polyline, ...): the known-size cached draw.
DrawCachedWith(versions, sizes) ==
  \E id \in Keys, version \in versions, n \in sizes, canCreate \in CanCreate :
    LET polyline == Polyline(n)
        size == Add(Max(Len(polyline), 2), 2)
        old == cacheMap[id]
        absent == old = NoItem
        stale == Stale(old, version)
        released == IF stale THEN Release(memoryBlocks, old) ELSE memoryBlocks
        scrubbed == IF stale THEN Scrub(vertexData, old) ELSE vertexData
        r == Allocate(released, size, canCreate)
        item == Versioned(r.item, version)
    IN
    /\ phase = "render" /\ uploadItem = NoKey /\ ~ret.threw
    /\ IF (absent \/ stale) /\ r.threw
         THEN /\ memoryBlocks' = released
              /\ ret' = [NoRet EXCEPT !.op = "drawCached", !.key = id, !.had = ~absent, !.was = life[id],
                                      !.version = version, !.threw = TRUE]
              /\ vertexData' = scrubbed
              /\ UNCHANGED <<cacheMap, life>>
       ELSE IF absent \/ stale
         THEN /\ memoryBlocks' = r.blocks
              /\ cacheMap' = [cacheMap EXCEPT ![id] = item]
              /\ vertexData' = WriteVertices(Buffers2(scrubbed, r.blocks), item.memoryBlock,
                                             item.offset, UploadedVertices(polyline))
              /\ ret' = [NoRet EXCEPT !.op = "drawCached", !.key = id, !.had = ~absent, !.was = life[id],
                                      !.version = version, !.upload = TRUE,
                                      !.drawn = Drawn(item)]
              /\ IF absent THEN Registered(id) ELSE UNCHANGED life
       ELSE   /\ ret' = [NoRet EXCEPT !.op = "drawCached", !.key = id, !.had = ~absent, !.was = life[id],
                                      !.version = version, !.drawn = Drawn(old)]
              /\ UNCHANGED <<memoryBlocks, vertexData, cacheMap, life>>
    /\ NoUpload
    /\ UNCHANGED <<dropList, phase, held, other, copied, singleton>>

DrawCached == DrawCachedWith(Versions, PolylineSizes)

\* bool draw(cacheId, version, ...): draws the cached polyline or begins an
\* upload session (returns true).
DrawStreamCall(ids) ==
  \E id \in ids, version \in Versions, canCreate \in CanCreate :
    LET old == cacheMap[id]
        absent == old = NoItem
        stale == Stale(old, version)
        released == IF stale THEN Release(memoryBlocks, old) ELSE memoryBlocks
        scrubbed == IF stale THEN Scrub(vertexData, old) ELSE vertexData
        r == AllocateLargest(released, IF absent THEN 4 ELSE 2, canCreate)
        item == Versioned(r.item, version)
    IN
    /\ phase = "render"
    /\ IF (absent \/ stale) /\ r.threw
         THEN /\ memoryBlocks' = released
              /\ ret' = [NoRet EXCEPT !.op = "drawStream", !.key = id, !.had = ~absent, !.was = life[id],
                                      !.version = version, !.threw = TRUE]
              /\ vertexData' = scrubbed
              /\ UNCHANGED <<cacheMap, life>>
              /\ NoUpload
       ELSE IF absent \/ stale
         THEN /\ memoryBlocks' = r.blocks
              /\ cacheMap' = [cacheMap EXCEPT ![id] = item]
              /\ vertexData' = Buffers2(scrubbed, r.blocks)
              /\ uploadItem' = id
              /\ uploadPtr' = item.offset
              /\ uploadEnd' = Add(item.offset, item.size)
              /\ uploadNumVertices' = 0
              /\ UNCHANGED uploadP0
              /\ ret' = [NoRet EXCEPT !.op = "drawStream", !.key = id, !.had = ~absent, !.was = life[id],
                                      !.version = version, !.upload = TRUE]
              /\ IF absent THEN Registered(id) ELSE UNCHANGED life
       ELSE   /\ ret' = [NoRet EXCEPT !.op = "drawStream", !.key = id, !.had = ~absent, !.was = life[id],
                                      !.version = version, !.drawn = Drawn(old)]
              /\ UNCHANGED <<memoryBlocks, vertexData, cacheMap, life>>
              /\ NoUpload
    /\ copied' = 0
    /\ UNCHANGED <<dropList, phase, held, other, singleton>>

\* The call made while no upload session is open.
DrawStream == uploadItem = NoKey /\ ~ret.threw /\ DrawStreamCall(Keys)

\* The call made for the cache id of the open upload session: one that was
\* begun and has not been finished, whether or not its last addVertex threw.
DrawStreamUnfinished == uploadItem # NoKey /\ DrawStreamCall({uploadItem})

\* glCopyBufferSubData: n vertices from (sb, so) to (db, do).
RECURSIVE CopyVertices(_, _, _, _, _, _)
CopyVertices(data, sb, so, db, do, n) ==
  IF n = 0 THEN data
  ELSE CopyVertices(WriteVertex(data, db, do, data[sb][so]), sb, so + 1, db, do + 1, n - 1)

\* Where addVertex leaves the write pointer after installing a new chunk.
GrowthPtr(oldItem, newItem) == newItem.offset

\* addVertex(vertex): the i-th vertex of a session is named i; sessions of up
\* to maxAdds vertices.
AddVertexUpTo(maxAdds) ==
  \E canCreate \in CanCreate :
    LET vertex == uploadNumVertices + 1
        cur == cacheMap[uploadItem]
        first == uploadNumVertices = 0
        data1 == IF first THEN WriteVertex(vertexData, cur.memoryBlock, uploadPtr, vertex)
                          ELSE vertexData
        ptr1 == IF first THEN uploadPtr + 1 ELSE uploadPtr
        data2 == WriteVertex(data1, cur.memoryBlock, ptr1, vertex)
        ptr2 == ptr1 + 1
        num == uploadNumVertices + 1
        r == AllocateLargest(memoryBlocks, Add((num * 4) \div 3, 1), canCreate)
        newItem == [r.item EXCEPT !.version = cur.version]
    IN
    /\ uploadItem # NoKey /\ ~ret.threw
    /\ uploadNumVertices < maxAdds
    /\ uploadP0' = vertex
    /\ uploadNumVertices' = num
    /\ IF ptr2 # uploadEnd
         THEN /\ vertexData' = data2
              /\ uploadPtr' = ptr2
              /\ ret' = [NoRet EXCEPT !.op = "addVertex", !.key = uploadItem]
              /\ UNCHANGED <<memoryBlocks, cacheMap, uploadEnd, copied>>
       ELSE IF r.threw
         THEN /\ vertexData' = data2
              /\ uploadPtr' = ptr2
              /\ ret' = [NoRet EXCEPT !.op = "addVertex", !.key = uploadItem,
                                      !.threw = TRUE]
              /\ UNCHANGED <<memoryBlocks, cacheMap, uploadEnd, copied>>
       ELSE   /\ vertexData' = Scrub(CopyVertices(Buffers2(data2, r.blocks),
                                                  cur.memoryBlock, cur.offset,
                                                  newItem.memoryBlock, newItem.offset,
                                                  cur.size), cur)
              /\ memoryBlocks' = Release(r.blocks, cur)
              /\ cacheMap' = [cacheMap EXCEPT ![uploadItem] = newItem]
              /\ uploadPtr' = GrowthPtr(cur, newItem)
              /\ uploadEnd' = Add(newItem.offset, newItem.size)
              /\ copied' = copied + cur.size
              /\ ret' = [NoRet EXCEPT !.op = "grow", !.key = uploadItem]
    /\ UNCHANGED <<uploadItem, dropList, phase, held, life, other, singleton>>

AddVertex == AddVertexUpTo(MaxAdds)

\* finish(): stores the closing vertices, gives the unused tail of the chunk
\* back, draws, and ends the session.
Finish ==
  LET cur == cacheMap[uploadItem]
      once == uploadNumVertices = 1
      data1 == IF once THEN WriteVertex(vertexData, cur.memoryBlock, uploadPtr, uploadP0)
                       ELSE vertexData
      ptr1 == IF once THEN uploadPtr + 1 ELSE uploadPtr
      data2 == WriteVertex(data1, cur.memoryBlock, ptr1, uploadP0)
      ptr2 == ptr1 + 1
      leftoverSpace == Sub(uploadEnd, ptr2)
      kept == [cur EXCEPT !.size = Sub(cur.size, leftoverSpace)]
      unusedItem == [cur EXCEPT !.offset = Add(cur.offset, kept.size),
                                !.size = leftoverSpace]
  IN
  /\ uploadItem # NoKey /\ ~ret.threw
  /\ uploadNumVertices >= 1
  /\ IF leftoverSpace # 0
       THEN /\ cacheMap' = [cacheMap EXCEPT ![uploadItem] = kept]
            /\ vertexData' = Scrub(data2, unusedItem)
            /\ memoryBlocks' = Release(memoryBlocks, unusedItem)
            /\ ret' = [NoRet EXCEPT !.op = "finish", !.key = uploadItem,
                                    !.drawn = Drawn(kept)]
       ELSE /\ ret' = [NoRet EXCEPT !.op = "finish", !.key = uploadItem,
                                    !.drawn = Drawn(cur)]
            /\ vertexData' = data2
            /\ UNCHANGED <<memoryBlocks, cacheMap>>
  /\ uploadItem' = NoKey
  /\ uploadPtr' = NullPtr
  /\ uploadEnd' = NullPtr
  /\ copied' = 0
  /\ UNCHANGED <<uploadNumVertices, uploadP0, dropList, phase, held, life, other, singleton>>

\* drop(cacheId)
Drop ==
  \E id \in Keys :
    /\ ~ret.threw
    /\ Len(dropList) < MaxDrops
    /\ dropList' = Append(dropList, id)
    /\ life' = [life EXCEPT ![id] = "dropped"]
    /\ ret' = [NoRet EXCEPT !.op = "drop", !.key = id]
    /\ UNCHANGED <<memoryBlocks, vertexData, cacheMap, uploadItem, uploadPtr, uploadEnd,
                   uploadNumVertices, uploadP0, phase, held, other, copied, singleton>>

\* An entry that stays in the table.
RemoveEntryNot(map, id) == map

\* cacheMap.removeEntry
RemoveEntry(map, id) == [map EXCEPT ![id] = NoItem]

\* The loop of cleanCache over the drop list: [blocks, map] after entry i.
RECURSIVE CleanCacheLoop(_, _, _, _)
CleanCacheLoop(blocks, map, list, i) ==
  IF i > Len(list) THEN [blocks |-> blocks, map |-> map]
  ELSE IF map[list[i]] # NoItem
    THEN CleanCacheLoop(Release(blocks, map[list[i]]),
                        RemoveEntry(map, list[i]), list, i + 1)
    ELSE CleanCacheLoop(blocks, map, list, i + 1)

\* The buffers once the chunks of the removed entries are free.
RECURSIVE ScrubRemoved(_, _, _, _)
ScrubRemoved(data, old, new, k) ==
  IF k > NumKeys THEN data
  ELSE ScrubRemoved(IF old[k] # NoItem /\ new[k] = NoItem THEN Scrub(data, old[k]) ELSE data,
                    old, new, k + 1)

InList(list, id) == \E i \in 1 .. Len(list) : list[i] = id

\* cleanCache: the pre-rendering callback.
CleanCache ==
  LET r == CleanCacheLoop(memoryBlocks, cacheMap, dropList, 1) IN
  /\ phase = "frame" /\ ~ret.threw
  /\ phase' = "render"
  /\ memoryBlocks' = r.blocks
  /\ cacheMap' = r.map
  /\ life' = [k \in Keys |->
                IF InList(dropList, k) THEN "reclaimed"
                ELSE IF life[k] = "dropped" THEN "overdue"
                ELSE life[k]]
  /\ ret' = [NoRet EXCEPT !.op = "cleanCache",
                          !.removed = {k \in Keys : cacheMap[k] # NoItem /\ r.map[k] = NoItem}]
  /\ vertexData' = ScrubRemoved(vertexData, cacheMap, r.map, 1)
  /\ NoUpload
  /\ UNCHANGED <<dropList, held, other, copied, singleton>>

\* The drop list after the post-rendering callback.
ClearedKeepsList(list) == list

Cleared(list) == << >>

\* clearDropList: the post-rendering callback.
ClearDropList ==
  /\ phase = "render" /\ uploadItem = NoKey /\ ~ret.threw
  /\ phase' = "frame"
  /\ dropList' = Cleared(dropList)
  /\ ret' = [NoRet EXCEPT !.op = "clearDropList"]
  /\ NoUpload
  /\ UNCHANGED <<memoryBlocks, vertexData, cacheMap, held, life, other, copied, singleton>>

Next ==
  \/ DrawCached
  \/ DrawStream
  \/ AddVertex
  \/ Finish
  \/ Drop
  \/ CleanCache
  \/ ClearDropList

Spec == Init /\ [][Next]_vars

(***************************************************************************)
(* Calls outside the upload protocol: addVertex and finish while no upload *)
(* is active, and finish right after a streaming draw.  With no upload     *)
(* active uploadItem, uploadPtr and uploadEnd are null; a store through    *)
(* the null uploadPtr and a read of the null uploadItem are undefined:     *)
(* the call either traps there (it does not return, nothing is changed)    *)
(* or goes on with the store lost and the read yielding arbitrary content. *)
(* A pointer n vertices past null is written NullPtr - n.  What the        *)
(* program does after a call that went on is not followed further: phase   *)
(* becomes "undefined" and no operation is enabled any more.               *)
(***************************************************************************)
\* addVertex with no upload active.
AddVertexIdle ==
  \E trap \in BOOLEAN, slots \in {1, 2} :
    /\ uploadItem = NoKey /\ ~ret.threw
    /\ phase \in {"frame", "render"}
    /\ slots = 2 <=> uploadNumVertices = 0
    /\ IF trap
         THEN /\ ret' = [NoRet EXCEPT !.op = "addVertex", !.threw = TRUE]
              /\ UNCHANGED <<uploadPtr, uploadNumVertices, uploadP0, phase>>
         ELSE /\ ret' = [NoRet EXCEPT !.op = "addVertex"]
              /\ uploadPtr' = NullPtr - slots
              /\ uploadNumVertices' = uploadNumVertices + 1
              /\ uploadP0' = uploadNumVertices + 1
              /\ phase' = "undefined"
    /\ UNCHANGED <<memoryBlocks, vertexData, cacheMap, uploadItem, uploadEnd,
                   dropList, held, life, other, copied, singleton>>

\* finish with no upload active.  When nothing traps, the leftover is the
\* wrapped difference of the null uploadEnd and the advanced uploadPtr, never
\* 0, and what is read through the null uploadItem is released as the tail.
FinishIdle ==
  \E trap \in BOOLEAN, b \in 1 .. Len(memoryBlocks) :
    LET slots == IF uploadNumVertices = 1 THEN 2 ELSE 1
        leftoverSpace == Sub(0, slots)
        garbage == CacheItem(b, 0, 0)
        kept == [garbage EXCEPT !.size = Sub(garbage.size, leftoverSpace)]
        unusedItem == [garbage EXCEPT !.offset = Add(garbage.offset, kept.size),
                                      !.size = leftoverSpace]
    IN
    /\ uploadItem = NoKey /\ ~ret.threw
    /\ phase \in {"frame", "render"}
    /\ IF trap
         THEN /\ ret' = [NoRet EXCEPT !.op = "finish", !.threw = TRUE]
              /\ UNCHANGED <<memoryBlocks, phase>>
         ELSE /\ ret' = [NoRet EXCEPT !.op = "finish", !.drawn = Drawn(kept)]
              /\ memoryBlocks' = Release(memoryBlocks, unusedItem)
              /\ phase' = "undefined"
    /\ UNCHANGED <<vertexData, cacheMap, uploadItem, uploadPtr, uploadEnd,
                   uploadNumVertices, uploadP0, dropList, held, life, other, copied, singleton>>

\* finish right after a streaming draw that returned true, with no addVertex
\* in between: the closing vertex stored is whatever uploadP0 holds.
FinishEmpty ==
  LET cur == cacheMap[uploadItem]
      data2 == WriteVertex(vertexData, cur.memoryBlock, uploadPtr, uploadP0)
      ptr2 == uploadPtr + 1
      leftoverSpace == Sub(uploadEnd, ptr2)
      kept == [cur EXCEPT !.size = Sub(cur.size, leftoverSpace)]
      unusedItem == [cur EXCEPT !.offset = Add(cur.offset, kept.size),
                                !.size = leftoverSpace]
  IN
  /\ uploadItem # NoKey /\ ~ret.threw
  /\ uploadNumVertices = 0
  /\ IF leftoverSpace # 0
       THEN /\ cacheMap' = [cacheMap EXCEPT ![uploadItem] = kept]
            /\ vertexData' = Scrub(data2, unusedItem)
            /\ memoryBlocks' = Release(memoryBlocks, unusedItem)
            /\ ret' = [NoRet EXCEPT !.op = "finish", !.key = uploadItem,
                                    !.drawn = Drawn(kept)]
       ELSE /\ ret' = [NoRet EXCEPT !.op = "finish", !.key = uploadItem,
                                    !.drawn = Drawn(cur)]
            /\ vertexData' = data2
            /\ UNCHANGED <<memoryBlocks, cacheMap>>
  /\ uploadItem' = NoKey
  /\ uploadPtr' = NullPtr
  /\ uploadEnd' = NullPtr
  /\ UNCHANGED <<uploadNumVertices, uploadP0, dropList, phase, held, life, other, copied, singleton>>

\* Upload sessions, with addVertex and finish also called while none is active.
MisuseNext ==
  \/ CleanCache
  \/ DrawStream
  \/ AddVertex
  \/ Finish
  \/ AddVertexIdle
  \/ FinishIdle

SpecMisuse == Init /\ [][MisuseNext]_vars

(***************************************************************************)
(* Known-size draws with a drop list that can hold a cache id more than    *)
(* once: drop is called again before the list is processed.                *)
(***************************************************************************)
MaxQueued == MaxDrops + 1

\* drop(cacheId), the list holding up to MaxQueued ids.
DropQueued ==
  \E id \in Keys :
    /\ ~ret.threw
    /\ Len(dropList) < MaxQueued
    /\ dropList' = Append(dropList, id)
    /\ life' = [life EXCEPT ![id] = "dropped"]
    /\ ret' = [NoRet EXCEPT !.op = "drop", !.key = id]
    /\ UNCHANGED <<memoryBlocks, vertexData, cacheMap, uploadItem, uploadPtr, uploadEnd,
                   uploadNumVertices, uploadP0, phase, held, other, copied, singleton>>

DropsNext ==
  \/ CleanCache
  \/ DrawCached
  \/ DropQueued
  \/ ClearDropList

SpecDrops == Init /\ [][DropsNext]_vars

(***************************************************************************)
(* Two OpenGL contexts.  Each has its own DataItem (initContext); the one  *)
(* PolylineRenderer object, and with it the drop list, serves both.        *)
(* cleanCache is called with one context's data before that context        *)
(* renders, in either order and at any distance from the other context's   *)
(* call; clearDropList is called once the contexts have rendered; drop is  *)
(* called at any time.  Both contexts draw one-point polylines that never  *)
(* change (version 1).                                                     *)
(***************************************************************************)
Context1Unchanged ==
  UNCHANGED <<memoryBlocks, vertexData, cacheMap, uploadItem, uploadPtr, uploadEnd,
              uploadNumVertices, uploadP0, held, copied, singleton>>

\* cleanCache, called with the second context's data.
OtherCleanCache ==
  LET r == CleanCacheLoop(other.memoryBlocks, other.cacheMap, dropList, 1) IN
  /\ other.phase = "frame" /\ ~ret.threw
  /\ other' = [other EXCEPT
                 !.phase = "render",
                 !.memoryBlocks = r.blocks,
                 !.cacheMap = r.map,
                 !.life = [k \in Keys |->
                             IF InList(dropList, k) THEN "reclaimed"
                             ELSE IF other.life[k] = "dropped" THEN "overdue"
                             ELSE other.life[k]]]
  /\ ret' = [NoRet EXCEPT !.op = "otherCleanCache",
                          !.removed = {k \in Keys : other.cacheMap[k] # NoItem
                                                    /\ r.map[k] = NoItem}]
  /\ Context1Unchanged
  /\ UNCHANGED <<dropList, phase, life>>

\* draw (known size) of a one-point polyline in the second context.
OtherDrawCached ==
  \E id \in Keys, version \in {1},
     canCreate \in (IF Len(other.memoryBlocks) < MaxBlocks THEN BOOLEAN ELSE {FALSE}) :
    LET old == other.cacheMap[id]
        absent == old = NoItem
        stale == Stale(old, version)
        released == IF stale THEN Release(other.memoryBlocks, old) ELSE other.memoryBlocks
        r == Allocate(released, Max(1, 2) + 2, canCreate)
        item == Versioned(r.item, version)
    IN
    /\ other.phase = "render" /\ ~ret.threw
    /\ IF (absent \/ stale) /\ r.threw
         THEN /\ other' = [other EXCEPT !.memoryBlocks = released]
              /\ ret' = [NoRet EXCEPT !.op = "otherDrawCached", !.key = id,
                                      !.version = version, !.threw = TRUE]
       ELSE IF absent \/ stale
         THEN /\ other' = [other EXCEPT
                             !.memoryBlocks = r.blocks,
                             !.cacheMap[id] = item,
                             !.life[id] = IF absent THEN "registered" ELSE @]
              /\ ret' = [NoRet EXCEPT !.op = "otherDrawCached", !.key = id,
                                      !.version = version, !.upload = TRUE,
                                      !.drawn = Drawn(item)]
       ELSE   /\ ret' = [NoRet EXCEPT !.op = "otherDrawCached", !.key = id,
                                      !.version = version, !.drawn = Drawn(old)]
              /\ UNCHANGED other
    /\ Context1Unchanged
    /\ UNCHANGED <<dropList, phase, life>>

\* drop(cacheId): the id is queued in the one drop list; it is dropped as
\* far as either context is concerned.
DropShared ==
  \E id \in Keys :
    /\ ~ret.threw
    /\ Len(dropList) < MaxDrops
    /\ dropList' = Append(dropList, id)
    /\ life' = [life EXCEPT ![id] = "dropped"]
    /\ other' = [other EXCEPT !.life[id] = "dropped"]
    /\ ret' = [NoRet EXCEPT !.op = "drop", !.key = id]
    /\ Context1Unchanged
    /\ UNCHANGED phase

\* clearDropList: the post-rendering callback, once both contexts rendered.
PostRendering ==
  /\ phase = "render" /\ other.phase = "render" /\ uploadItem = NoKey /\ ~ret.threw
  /\ phase' = "frame"
  /\ other' = [other EXCEPT !.phase = "frame"]
  /\ dropList' = Cleared(dropList)
  /\ ret' = [NoRet EXCEPT !.op = "clearDropList"]
  /\ Context1Unchanged
  /\ UNCHANGED life

\* draw (known size) of a one-point polyline in the first context.
DrawCachedOne == DrawCachedWith({1}, {1})

ContextsNext ==
  \/ CleanCache
  \/ DrawCachedOne
  \/ DropShared
  \/ PostRendering
  \/ OtherCleanCache
  \/ OtherDrawCached

SpecContexts == Init /\ [][ContextsNext]_vars

(***************************************************************************)
(* Upload sessions of up to MaxSessionAdds vertices, in an arena that also *)
(* holds the polylines of cache ids other than Keys: `held` is their cache *)
(* entries, made by the known-size draw and removed by cleanCache after a  *)
(* drop.  The program is followed until a free chunk or a cache entry      *)
(* reaches beyond the end of its block.                                    *)
(***************************************************************************)
MaxSessionAdds == 7

\* No free chunk and no cache entry reaches beyond the end of its block.
InsideBlocks ==
  /\ \A b \in 1 .. Len(memoryBlocks) : \A i \in 1 .. Len(memoryBlocks[b]) :
       memoryBlocks[b][i].offset + memoryBlocks[b][i].size <= K
  /\ \A k \in Keys : cacheMap[k] # NoItem => cacheMap[k].offset + cacheMap[k].size <= K

\* draw (known size) of a polyline whose cache id has no entry yet.
DrawElsewhere ==
  \E n \in PolylineSizes, canCreate \in CanCreate :
    LET polyline == Polyline(n)
        r == Allocate(memoryBlocks, Add(Max(Len(polyline), 2), 2), canCreate)
    IN
    /\ phase = "render" /\ uploadItem = NoKey /\ ~ret.threw
    /\ Cardinality(held) < MaxHeld
    /\ IF r.threw
         THEN /\ ret' = [NoRet EXCEPT !.op = "drawElsewhere", !.threw = TRUE]
              /\ UNCHANGED <<memoryBlocks, vertexData, held>>
         ELSE /\ memoryBlocks' = r.blocks
              /\ vertexData' = WriteVertices(Buffers2(vertexData, r.blocks), r.item.memoryBlock,
                                             r.item.offset, UploadedVertices(polyline))
              /\ held' = held \cup {r.item}
              /\ ret' = [NoRet EXCEPT !.op = "drawElsewhere", !.upload = TRUE,
                                      !.drawn = Drawn(r.item)]
    /\ ContextUnchanged

\* cleanCache, for the entry of one dropped cache id outside Keys.
ReclaimElsewhere ==
  \E item \in held :
    /\ phase = "frame" /\ ~ret.threw
    /\ memoryBlocks' = Release(memoryBlocks, item)
    /\ vertexData' = Scrub(vertexData, item)
    /\ held' = held \ {item}
    /\ ret' = [NoRet EXCEPT !.op = "reclaimElsewhere"]
    /\ ContextUnchanged

AddVertexLong == AddVertexUpTo(MaxSessionAdds)

SessionNext ==
  \/ InsideBlocks /\ CleanCache
  \/ InsideBlocks /\ ClearDropList
  \/ InsideBlocks /\ DrawElsewhere
  \/ InsideBlocks /\ ReclaimElsewhere
  \/ InsideBlocks /\ DrawStream
  \/ InsideBlocks /\ AddVertexLong
  \/ InsideBlocks /\ Finish

SpecSession == Init /\ [][SessionNext]_vars

\* Streaming draws, with sessions that are left unfinished; followed until a
\* free chunk or a cache entry reaches beyond the end of its block.
UnfinishedNext ==
  \/ InsideBlocks /\ CleanCache
  \/ InsideBlocks /\ DrawStream
  \/ InsideBlocks /\ AddVertex
  \/ InsideBlocks /\ Finish
  \/ InsideBlocks /\ DrawStreamUnfinished

SpecUnfinished == Init /\ [][UnfinishedNext]_vars

\* Known-size draws of polylines of one point and of K - 1 points, the
\* shortest polyline whose max(n, 2) + 2 vertices exceed a block; followed
\* until a free chunk or a cache entry reaches beyond the end of its block.
LongSizes == {1, K - 1}

DrawCachedLong == DrawCachedWith(Versions, LongSizes)

LongNext ==
  \/ InsideBlocks /\ CleanCache
  \/ InsideBlocks /\ DrawCachedLong
  \/ InsideBlocks /\ DropQueued
  \/ InsideBlocks /\ ClearDropList

SpecLong == Init /\ [][LongNext]_vars

\* Draws, with every upload session finished before any vertex was added.
EmptyNext ==
  \/ CleanCache
  \/ DrawCached
  \/ DrawStream
  \/ FinishEmpty

SpecEmpty == Init /\ [][EmptyNext]_vars

(***************************************************************************)
(* C1: after every allocate, allocateLargest and release, each block's     *)
(* free-chunk list is strictly sorted by offset, its chunks have size > 0, *)
(* do not overlap, and no two of them are adjacent (maximally coalesced).  *)
(***************************************************************************)
Coalesced(freeChunks) ==
  /\ \A i \in 1 .. Len(freeChunks) : freeChunks[i].size > 0
  /\ \A i \in 1 .. Len(freeChunks) - 1 :
       freeChunks[i].offset + freeChunks[i].size < freeChunks[i + 1].offset

C1_FreeListsCoalesced ==
  \A b \in 1 .. Len(memoryBlocks) : Coalesced(memoryBlocks[b])

\* A release has just left a block entirely free again while other chunks
\* are still handed out: the released chunk was merged with its neighbours.
C1_Witness ==
  /\ ret.op = "release"
  /\ held # {}
  /\ Len(memoryBlocks) = 2
  /\ memoryBlocks[1] = MemoryBlock(K)

(***************************************************************************)
(* Helpers of the statements about the context.                            *)
(***************************************************************************)
Cached == {k \in Keys : cacheMap[k] # NoItem}

IsDraw(r) == r.op \in {"drawCached", "drawStream"}

RECURSIVE SumSizes(_)
SumSizes(freeChunks) ==
  IF freeChunks = << >> THEN 0 ELSE Head(freeChunks).size + SumSizes(Tail(freeChunks))

RECURSIVE SumCached(_, _, _)
SumCached(map, b, k) ==
  IF k > NumKeys THEN 0
  ELSE (IF map[k] # NoItem /\ map[k].memoryBlock = b THEN map[k].size ELSE 0)
       + SumCached(map, b, k + 1)

\* The slots <<block, slot>> of a chunk or cache item of block b.
Slots(b, c) == {<<b, s>> : s \in c.offset .. c.offset + c.size - 1}

ItemSlots(item) == IF item = NoItem THEN {} ELSE Slots(item.memoryBlock, item)

\* The free slots of the device: those of the free chunks of the blocks, and
\* all slots of the blocks not created yet.
FreeSlots(blocks) ==
  UNION {UNION {Slots(b, blocks[b][i]) : i \in 1 .. Len(blocks[b])} : b \in 1 .. Len(blocks)}
  \cup {<<b, s>> : b \in Len(blocks) + 1 .. MaxBlocks, s \in 0 .. K - 1}

\* Every slot of the drawn range holds a vertex stored since the range was
\* allocated.
Written(data, drawn) ==
  \A s \in drawn[2] .. drawn[2] + drawn[3] - 1 :
    /\ drawn[1] \in 1 .. Len(data) /\ s \in 0 .. K - 1
    /\ data[drawn[1]][s] # 0

(***************************************************************************)
(* C2: after every operation on a context, for every block the sizes of    *)
(* its free chunks plus the sizes of the cache entries located in it add   *)
(* up to the block's capacity.                                             *)
(***************************************************************************)
C2_Conservation ==
  \A b \in 1 .. Len(memoryBlocks) :
    SumSizes(memoryBlocks[b]) + SumCached(cacheMap, b, 1) = K

(***************************************************************************)
(* C3: the ranges of two distinct cache entries of one block are disjoint, *)
(* and disjoint from every free chunk of that block.  (That the table      *)
(* holds one entry per key is how cacheMap is typed.)                      *)
(***************************************************************************)
C3_NoAliasing ==
  /\ \A j, k \in Cached : j # k => ItemSlots(cacheMap[j]) \cap ItemSlots(cacheMap[k]) = {}
  /\ \A k \in Cached : ItemSlots(cacheMap[k]) \cap FreeSlots(memoryBlocks) = {}

(***************************************************************************)
(* C4: a session fed the vertices 1..m and finished leaves a cached range  *)
(* that holds, after the leading duplicate, all m vertices in feed order.  *)
(***************************************************************************)
C4_StreamKeepsAllVertices ==
  ret.op = "finish" =>
    LET item == cacheMap[ret.key] IN
    /\ item.size >= uploadNumVertices + 1
    /\ \A i \in 1 .. uploadNumVertices :
         vertexData[item.memoryBlock][item.offset + i] = i

(***************************************************************************)
(* C5: a draw for a key whose entry exists with the requested version      *)
(* leaves the entry, the whole cache table and every free list unchanged,  *)
(* requests no upload, begins no session, and draws the cached range.      *)
(***************************************************************************)
C5_HitChangesNothing ==
  [][(IsDraw(ret') /\ cacheMap[ret'.key] # NoItem
        /\ cacheMap[ret'.key].version = ret'.version)
     => /\ cacheMap' = cacheMap
        /\ memoryBlocks' = memoryBlocks
        /\ vertexData' = vertexData
        /\ ~ret'.upload /\ ~ret'.threw
        /\ uploadItem' = NoKey
        /\ ret'.drawn = Drawn(cacheMap[ret'.key])]_vars

\* A draw has just hit the cache while another key is cached too.
C5_Witness ==
  /\ IsDraw(ret) /\ ~ret.upload /\ ~ret.threw
  /\ ret.drawn = Drawn(cacheMap[ret.key])
  /\ Cached = Keys

(***************************************************************************)
(* C6: a draw that returns requests an upload iff the key had no entry or  *)
(* an entry of another version; then the old chunk (if any) is released    *)
(* and one new chunk is allocated, and in every case the table afterwards  *)
(* holds the key's entry with the requested version and the other entries  *)
(* as they were.                                                           *)
(***************************************************************************)
C6_UploadIffMiss ==
  [][(IsDraw(ret') /\ ~ret'.threw)
     => LET k == ret'.key
            old == cacheMap[k]
            new == cacheMap'[k]
        IN
        /\ ret'.upload <=> (old = NoItem \/ old.version # ret'.version)
        /\ new # NoItem /\ new.version = ret'.version
        /\ \A j \in Keys \ {k} : cacheMap'[j] = cacheMap[j]
        /\ ret'.upload =>
             /\ ItemSlots(new) \subseteq FreeSlots(memoryBlocks) \cup ItemSlots(old)
             /\ FreeSlots(memoryBlocks') =
                  (FreeSlots(memoryBlocks) \cup ItemSlots(old)) \ ItemSlots(new)
             /\ Len(memoryBlocks') \in {Len(memoryBlocks), Len(memoryBlocks) + 1}]_vars

\* A draw has just replaced the chunk of an entry whose version differed,
\* in a block created for it, while the other key is cached too.
C6_Witness ==
  /\ IsDraw(ret) /\ ret.upload /\ ret.had
  /\ cacheMap[ret.key].version = ret.version
  /\ cacheMap[ret.key].memoryBlock = 2
  /\ Cached = Keys

(***************************************************************************)
(* C7: a draw for a key that was dropped and has seen cleanCache run since *)
(* (with no entry created for it in between) is a miss whatever the        *)
(* version: it requests an upload, and what it draws was stored since the  *)
(* range was allocated.                                                    *)
(***************************************************************************)
C7_MissAfterReclaim ==
  (IsDraw(ret) /\ ret.was \in {"reclaimed", "overdue"} /\ ~ret.threw) =>
     /\ ret.upload
     /\ cacheMap[ret.key].version = ret.version
     /\ ret.drawn # << >> => Written(vertexData, ret.drawn)

(***************************************************************************)
(* C8: every key passed to drop, at whatever point of the frame cycle, has *)
(* no cache entry left once the next cleanCache after the drop has run.    *)
(***************************************************************************)
C8_DroppedGoneAfterNextReclaim ==
  \A k \in Keys : life[k] \in {"reclaimed", "overdue"} => cacheMap[k] = NoItem

(***************************************************************************)
(* C9: cleanCache leaves alone every entry created by a draw after the     *)
(* last drop of its key; when every queued key is absent from the table or *)
(* was registered since its drop, cleanCache changes neither the free      *)
(* lists nor the table.                                                    *)
(***************************************************************************)
C9_ReclaimSparesRegistered ==
  [][ret'.op = "cleanCache"
     => /\ \A k \in Keys : life[k] = "registered" => cacheMap'[k] = cacheMap[k]
        /\ (\A i \in 1 .. Len(dropList) :
              cacheMap[dropList[i]] = NoItem \/ life[dropList[i]] = "registered")
           => (memoryBlocks' = memoryBlocks /\ cacheMap' = cacheMap)]_vars

\* cleanCache has just run over a queued key that had no entry, with another
\* key cached: nothing was removed.
C9_Witness ==
  /\ ret.op = "cleanCache" /\ ret.removed = {}
  /\ dropList # << >>
  /\ \E k \in Cached : life[k] = "registered"

(***************************************************************************)
(* C10: an operation in which creating a memory block fails leaves the     *)
(* free lists, the list of blocks and the cache table as they were.        *)
(***************************************************************************)
C10_FailureChangesNothing ==
  [][ret'.threw => (memoryBlocks' = memoryBlocks /\ cacheMap' = cacheMap)]_vars

(***************************************************************************)
(* Helpers of the statements about direct calls of the allocator.          *)
(***************************************************************************)
\* The free chunks of the blocks, as <<block, position in its list>>.
FreeChunkIds(blocks) ==
  UNION {{<<b, i>> : i \in 1 .. Len(blocks[b])} : b \in 1 .. Len(blocks)}

ChunkAt(blocks, p) == blocks[p[1]][p[2]]

\* The free chunks that can hold `size` vertices.
Fits(blocks, size) == {p \in FreeChunkIds(blocks) : ChunkAt(blocks, p).size >= size}

\* Scan order: block creation order, then list (ascending offset) order.
Before(p, q) == p[1] < q[1] \/ (p[1] = q[1] /\ p[2] < q[2])

\* The blocks an allocation chooses from: those there were, and the block the
\* call created.
Offered(before, after) ==
  IF Len(after) > Len(before) THEN Append(before, MemoryBlock(K)) ELSE before

\* The largest size of a free chunk, 0 when there is none.
LargestFree(blocks) ==
  IF FreeChunkIds(blocks) = {} THEN 0
  ELSE LET p == CHOOSE q \in FreeChunkIds(blocks) :
                  \A r \in FreeChunkIds(blocks) : ChunkAt(blocks, r).size <= ChunkAt(blocks, q).size
       IN ChunkAt(blocks, p).size

\* The free lists without the chunk at p.
Without(blocks, p) == [blocks EXCEPT ![p[1]] = RemoveAt(@, p[2])]

(***************************************************************************)
(* C11: allocate(size) returns exactly `size` vertices from the start of a *)
(* free chunk that can hold them and is the smallest such chunk, the first *)
(* in block order, then offset order, among the equally small ones.        *)
(***************************************************************************)
C11_BestFit ==
  [][(ret'.op = "allocate" /\ ~ret'.threw)
     => LET blocks == Offered(memoryBlocks, memoryBlocks')
            size == ret'.size
            item == ret'.item
        IN
        /\ item.size = size
        /\ \E p \in Fits(blocks, size) :
             /\ p[1] = item.memoryBlock
             /\ ChunkAt(blocks, p).offset = item.offset
             /\ \A q \in Fits(blocks, size) \ {p} :
                  \/ ChunkAt(blocks, q).size > ChunkAt(blocks, p).size
                  \/ (ChunkAt(blocks, q).size = ChunkAt(blocks, p).size /\ Before(p, q))]_vars

(***************************************************************************)
(* C12: allocateLargest(minSize) returns whole, and removes from its list, *)
(* a free chunk of the largest size there is when that size is at least    *)
(* minSize; otherwise it creates one block and returns all of it, leaving  *)
(* the free chunks there were as they are.                                 *)
(***************************************************************************)
C12_LargestWhole ==
  [][ret'.op = "allocateLargest"
     => LET largest == LargestFree(memoryBlocks)
            item == ret'.item
        IN IF largest >= ret'.size
             THEN /\ ~ret'.threw
                  /\ item.size = largest
                  /\ \E p \in FreeChunkIds(memoryBlocks) :
                       /\ p[1] = item.memoryBlock
                       /\ ChunkAt(memoryBlocks, p) = FreeChunk(item.offset, item.size)
                       /\ memoryBlocks' = Without(memoryBlocks, p)
             ELSE IF ret'.threw
               THEN memoryBlocks' = memoryBlocks
               ELSE /\ item = CacheItem(Len(memoryBlocks) + 1, 0, K)
                    /\ memoryBlocks' = Append(memoryBlocks, << >>)]_vars

\* allocateLargest has just taken the largest of several free chunks of a
\* block, leaving a smaller one free.
C12_Witness ==
  /\ ret.op = "allocateLargest" /\ ~ret.threw
  /\ ret.item.memoryBlock = 1 /\ ret.item.offset > 0
  /\ memoryBlocks[1] # << >>
  /\ \A i \in 1 .. Len(memoryBlocks[1]) : memoryBlocks[1][i].size < ret.item.size

(***************************************************************************)
(* C13: every chunk allocateLargest(minSize) returns has at least minSize  *)
(* vertices, for every minSize a caller can pass.                          *)
(***************************************************************************)
C13_AtLeastMinSize ==
  [][(ret'.op = "allocateLargest" /\ ~ret'.threw) => ret'.item.size >= ret'.size]_vars

(***************************************************************************)
(* C14: finish leaves the key's entry with as many slots as were written   *)
(* during the session (the vertices added and the two adjacency            *)
(* duplicates; four slots for a single vertex), at the chunk's start, with *)
(* the version given at begin; the rest of the chunk held before finish is *)
(* free again and coalesced, and the draw is over the entry's range.       *)
(***************************************************************************)
C14_FinishRecordsWrittenSize ==
  [][ret'.op = "finish"
     => LET before == cacheMap[uploadItem]
            after == cacheMap'[uploadItem]
        IN
        /\ after.size = Max(uploadNumVertices, 2) + 2
        /\ after.memoryBlock = before.memoryBlock /\ after.offset = before.offset
        /\ after.version = before.version
        /\ ret'.drawn = Drawn(after)
        /\ FreeSlots(memoryBlocks') =
             FreeSlots(memoryBlocks) \cup (ItemSlots(before) \ ItemSlots(after))
        /\ \A b \in 1 .. Len(memoryBlocks') : Coalesced(memoryBlocks'[b])]_vars

(***************************************************************************)
(* C15: addVertex or finish called while no upload is active does not      *)
(* return (it ends in a fatal stop) and changes no free list and no cache  *)
(* entry.                                                                  *)
(***************************************************************************)
C15_IdleCallAborts ==
  [][(ret'.op \in {"addVertex", "finish"} /\ uploadItem = NoKey)
     => /\ ret'.threw
        /\ memoryBlocks' = memoryBlocks
        /\ cacheMap' = cacheMap]_vars

(***************************************************************************)
(* C16: finish called after a streaming draw with no addVertex in between  *)
(* issues no draw and leaves no entry for the key in the cache table.      *)
(***************************************************************************)
C16_EmptySessionRejected ==
  [][(ret'.op = "finish" /\ uploadItem # NoKey /\ uploadNumVertices = 0)
     => /\ ret'.drawn = << >>
        /\ cacheMap'[uploadItem] = NoItem]_vars

(***************************************************************************)
(* C17: cleanCache over a drop list that names a key several times leaves  *)
(* the free lists and the cache table that it leaves over the same list    *)
(* with each key named once; the chunk of each removed entry is released   *)
(* once: the free slots gain exactly the slots of the removed entries and  *)
(* every free list stays coalesced.                                        *)
(***************************************************************************)
RECURSIVE Dedup(_)
Dedup(list) ==
  IF list = << >> THEN << >>
  ELSE LET front == Dedup(SubSeq(list, 1, Len(list) - 1))
           last == list[Len(list)]
       IN IF InList(front, last) THEN front ELSE Append(front, last)

C17_DropIdempotent ==
  [][ret'.op = "cleanCache"
     => LET once == CleanCacheLoop(memoryBlocks, cacheMap, Dedup(dropList), 1) IN
        /\ memoryBlocks' = once.blocks
        /\ cacheMap' = once.map
        /\ FreeSlots(memoryBlocks') =
             FreeSlots(memoryBlocks) \cup UNION {ItemSlots(cacheMap[k]) : k \in ret'.removed}
        /\ \A b \in 1 .. Len(memoryBlocks') :
             /\ Coalesced(memoryBlocks'[b])
             /\ SumSizes(memoryBlocks'[b]) =
                  SumSizes(memoryBlocks[b]) + SumCached(cacheMap, b, 1) - SumCached(cacheMap', b, 1)]_vars

\* cleanCache has just removed the entry of a key that was queued twice,
\* while the other key stays cached.
C17_Witness ==
  /\ ret.op = "cleanCache" /\ ret.removed # {}
  /\ Len(dropList) = 2 /\ dropList[1] = dropList[2]
  /\ Cached # {}

(***************************************************************************)
(* C18: with two contexts, a key passed to drop once has no cache entry    *)
(* left in either context once that context's next cleanCache after the    *)
(* drop has run, whatever the order of the contexts' cleanCache calls and  *)
(* the clearDropList call.                                                 *)
(***************************************************************************)
C18_ReclaimedInEveryContext ==
  \A k \in Keys :
    /\ life[k] \in {"reclaimed", "overdue"} => cacheMap[k] = NoItem
    /\ other.life[k] \in {"reclaimed", "overdue"} => other.cacheMap[k] = NoItem

(***************************************************************************)
(* C19: releasing two handed-out chunks yields the same free lists in      *)
(* either order; when the two are adjacent chunks of one block, the result *)
(* has a single free chunk covering both, which starts where the free      *)
(* chunk ending at the first one's offset started (if there was one) and   *)
(* ends where the free chunk starting at the second one's end ended (if    *)
(* there was one), so that chunks 0..3 and 4..7 become the chunk (0, 8).   *)
(***************************************************************************)
Adjacent(a, b) == a.memoryBlock = b.memoryBlock /\ a.offset + a.size = b.offset

\* Where the free chunk that ends at `offset` starts (offset itself if none).
LeftEdge(freeChunks, offset) ==
  LET L == {i \in 1 .. Len(freeChunks) :
              freeChunks[i].offset + freeChunks[i].size = offset}
  IN IF L = {} THEN offset ELSE freeChunks[CHOOSE i \in L : TRUE].offset

\* Where the free chunk that starts at `end` ends (end itself if none).
RightEdge(freeChunks, end) ==
  LET R == {i \in 1 .. Len(freeChunks) : freeChunks[i].offset = end}
  IN IF R = {} THEN end
     ELSE freeChunks[CHOOSE i \in R : TRUE].offset + freeChunks[CHOOSE i \in R : TRUE].size

C19_ReleaseOrderIndependent ==
  \A a \in held, b \in held :
    a # b =>
      LET ab == Release(Release(memoryBlocks, a), b)
          ba == Release(Release(memoryBlocks, b), a)
          freeChunks == memoryBlocks[a.memoryBlock]
          left == LeftEdge(freeChunks, a.offset)
          right == RightEdge(freeChunks, b.offset + b.size)
      IN /\ ab = ba
         /\ Adjacent(a, b) =>
              /\ \E i \in 1 .. Len(ab[a.memoryBlock]) :
                    ab[a.memoryBlock][i] = FreeChunk(left, right - left)
              /\ Len(ab[a.memoryBlock])
                   = Len(freeChunks) + 1 - (IF left # a.offset THEN 1 ELSE 0)
                                         - (IF right # b.offset + b.size THEN 1 ELSE 0)
              /\ Coalesced(ab[a.memoryBlock])

\* Two adjacent chunks of one block are handed out, a free chunk lies
\* immediately to the left of the first, and releasing the two in either
\* order leaves the block entirely free.
C19_Witness ==
  \E a \in held, b \in held :
    /\ Adjacent(a, b)
    /\ LeftEdge(memoryBlocks[a.memoryBlock], a.offset) # a.offset
    /\ Release(Release(memoryBlocks, b), a)[a.memoryBlock] = MemoryBlock(K)

(***************************************************************************)
(* C20: allocate(size) adds a block only when no free chunk of any block   *)
(* can hold `size` vertices, and then adds exactly one, leaving the free   *)
(* lists of the blocks there were as they are; it fails only when that     *)
(* block cannot be created, changing nothing.  When a free chunk of        *)
(* exactly `size` vertices exists, such a chunk is returned whole and      *)
(* taken off its list, and no block is added.                              *)
(***************************************************************************)
\* The free chunks of exactly `size` vertices.
FitsExactly(blocks, size) ==
  {p \in FreeChunkIds(blocks) : ChunkAt(blocks, p).size = size}

C20_NewBlockOnlyWhenNothingFits ==
  [][ret'.op = "allocate"
     => LET size == ret'.size
            item == ret'.item
            n == Len(memoryBlocks)
        IN
        /\ Len(memoryBlocks') \in {n, n + 1}
        /\ (Len(memoryBlocks') = n + 1 \/ ret'.threw) <=> Fits(memoryBlocks, size) = {}
        /\ Len(memoryBlocks') = n + 1
             => /\ ~ret'.threw
                /\ SubSeq(memoryBlocks', 1, n) = memoryBlocks
                /\ item.memoryBlock = n + 1
        /\ ret'.threw => memoryBlocks' = memoryBlocks
        /\ FitsExactly(memoryBlocks, size) # {}
             => \E p \in FitsExactly(memoryBlocks, size) :
                  /\ item = CacheItem(p[1], ChunkAt(memoryBlocks, p).offset, size)
                  /\ memoryBlocks' = Without(memoryBlocks, p)]_vars

\* allocate has just returned the chunk at the start of the only block, all
\* of the free chunk that a release had left in front of a chunk still
\* handed out; the rest of the block is free.
C20_Witness ==
  /\ ret.op = "allocate" /\ ~ret.threw
  /\ Len(memoryBlocks) = 1
  /\ ret.item.offset = 0 /\ ret.item \in held
  /\ \E h \in held : h.memoryBlock = 1 /\ h.offset = ret.item.size
  /\ memoryBlocks[1] # << >>

(***************************************************************************)
(* C21: allocate(size) returns the first `size` vertices of one free chunk *)
(* (o, s); when s > size that chunk becomes (o + size, s - size) at the    *)
(* same position of its list, when s = size it is removed from the list,   *)
(* and in both cases every other free chunk is unchanged.                  *)
(***************************************************************************)
C21_SplitOrConsume ==
  [][(ret'.op = "allocate" /\ ~ret'.threw)
     => LET blocks == Offered(memoryBlocks, memoryBlocks')
            size == ret'.size
            item == ret'.item
        IN \E p \in FreeChunkIds(blocks) :
             LET o == ChunkAt(blocks, p).offset
                 s == ChunkAt(blocks, p).size
             IN /\ item = CacheItem(p[1], o, size)
                /\ s > size =>
                     memoryBlocks' = [blocks EXCEPT ![p[1]][p[2]] = FreeChunk(o + size, s - size)]
                /\ s = size => memoryBlocks' = Without(blocks, p)]_vars

\* allocate has just split the first of several free chunks of a block: the
\* remainder starts where the returned chunk ends, and another free chunk
\* follows it.
C21_Witness ==
  /\ ret.op = "allocate" /\ ~ret.threw
  /\ Len(memoryBlocks[ret.item.memoryBlock]) >= 2
  /\ memoryBlocks[ret.item.memoryBlock][1].offset = ret.item.offset + ret.item.size

(***************************************************************************)
(* C22: in an upload session of n addVertex calls, whatever chunks begin   *)
(* and the growth steps obtained, the growth steps together have copied at *)
(* most n + 1 vertices (which is within 4 * n plus a constant), and an     *)
(* addVertex call fails only when its growth step needs a new block, no    *)
(* free chunk being as large as it asks for.                               *)
(***************************************************************************)
C22_CopiedLinear ==
  /\ copied <= uploadNumVertices + 1
  /\ copied <= 4 * uploadNumVertices + 1
  /\ (ret.op = "addVertex" /\ ret.threw)
       => LargestFree(memoryBlocks) < Add((uploadNumVertices * 4) \div 3, 1)

\* The seventh addVertex of a session has just filled a chunk of a whole
\* block and moved the session, copying K vertices, to a chunk of a new
\* block, which is smaller than the growth step asked for.
C22_Witness ==
  /\ ret.op = "grow"
  /\ uploadNumVertices = MaxSessionAdds
  /\ copied = K
  /\ cacheMap[uploadItem].size < Add((uploadNumVertices * 4) \div 3, 1)

(***************************************************************************)
(* C23: every addVertex (two slots on the first call of a session, one     *)
(* afterwards) and every finish (two slots after exactly one addVertex,    *)
(* one otherwise) writes its slots inside the chunk the session holds:     *)
(* the write pointer starts no lower than the chunk's offset and ends no   *)
(* higher than the chunk's end, so finish's leftover is not negative.      *)
(***************************************************************************)
C23_WritesInsideChunk ==
  [][ret'.op \in {"addVertex", "grow", "finish"}
     => LET cur == cacheMap[uploadItem]
            slots == IF ret'.op = "finish"
                       THEN (IF uploadNumVertices = 1 THEN 2 ELSE 1)
                       ELSE (IF uploadNumVertices = 0 THEN 2 ELSE 1)
        IN /\ uploadEnd = cur.offset + cur.size
           /\ cur.offset <= uploadPtr
           /\ uploadPtr + slots <= uploadEnd]_vars

(***************************************************************************)
(* C24: throughout an upload session the write pointer is at the held      *)
(* chunk's offset plus the number of slots written in the session (none    *)
(* before the first addVertex, one more than the number of vertices        *)
(* afterwards), also right after a growth step, where those slots are the  *)
(* ones copied from the old chunk.                                         *)
(***************************************************************************)
SlotsWritten == IF uploadNumVertices = 0 THEN 0 ELSE uploadNumVertices + 1

C24_CursorAfterWritten ==
  (uploadItem # NoKey /\ ~ret.threw)
    => uploadPtr = cacheMap[uploadItem].offset + SlotsWritten

(***************************************************************************)
(* C25: every chunk returned by allocate(size) or allocateLargest(minSize) *)
(* lies inside its block, offset + size <= K, for every request, those     *)
(* above K included.                                                       *)
(***************************************************************************)
C25_ChunkInsideBlock ==
  (ret.op \in {"allocate", "allocateLargest"} /\ ~ret.threw)
    => /\ ret.item.memoryBlock \in 1 .. Len(memoryBlocks)
       /\ ret.item.size >= 1
       /\ ret.item.offset + ret.item.size <= K

(***************************************************************************)
(* C26: the chunk a growth step of addVertex installs is larger than the   *)
(* chunk it replaces and has more slots than the session has written so    *)
(* far (one more than the number of vertices added).                       *)
(***************************************************************************)
C26_GrowthMakesRoom ==
  [][ret'.op = "grow"
     => /\ cacheMap'[uploadItem].size > cacheMap[uploadItem].size
        /\ cacheMap'[uploadItem].size > uploadNumVertices' + 1]_vars

(***************************************************************************)
(* C27: a draw is a cache hit (it asks for no upload and draws the cached  *)
(* range) only for a cache id whose upload was completed; it is never a    *)
(* hit for the cache id of the upload session that is open, begun by an    *)
(* earlier draw and not finished.                                          *)
(***************************************************************************)
C27_HitOnlyAfterFinish ==
  [][(IsDraw(ret') /\ ~ret'.upload /\ ~ret'.threw) => ret'.key # uploadItem]_vars

(***************************************************************************)
(* C28: a known-size draw that uploads a polyline of n points stores       *)
(* max(n, 2) + 2 vertices, as many as the chunk allocated for it has       *)
(* slots, from the chunk's first slot to its last: the first point, the    *)
(* points in order (the only point twice), the last point.  It stores      *)
(* nothing outside the chunk, and the range it draws is the chunk.         *)
(***************************************************************************)
C28_UploadFillsChunk ==
  [][(ret'.op = "drawCached" /\ ret'.upload)
     => LET item == cacheMap'[ret'.key] IN
        /\ ret'.drawn = Drawn(item)
        /\ Written(vertexData', ret'.drawn)
        /\ \E n \in 1 .. K :
             LET stored == UploadedVertices(Polyline(n)) IN
             /\ item.size = Max(n, 2) + 2
             /\ Len(stored) = item.size
             /\ \A i \in 1 .. item.size :
                  vertexData'[item.memoryBlock][item.offset + i - 1] = stored[i]
        /\ \A b \in 1 .. Len(vertexData'), slot \in 0 .. K - 1 :
             <<b, slot>> \notin ItemSlots(item)
               => \/ vertexData'[b][slot] = 0
                  \/ b <= Len(vertexData) /\ vertexData'[b][slot] = vertexData[b][slot]]_vars

(***************************************************************************)
(* The shared renderer object: acquire() and release(), called by threads. *)
(* refCount is an atomic counter, so postAdd and preSub are single steps;   *)
(* theRenderer is a plain static pointer, read and written in steps of      *)
(* their own, which the steps of other threads may come between.  Objects   *)
(* are numbered in the order of their construction; `alive` holds those     *)
(* constructed and not destroyed, `twice` tells whether delete was applied  *)
(* to an object already destroyed.  pc[t] is the position of thread t:      *)
(* "out" (no reference), "create", "return" (inside acquire), "in" (holds   *)
(* the pointer got[t]), "delete", "clear" (inside release).                 *)
(***************************************************************************)
ArenaUnchanged ==
  UNCHANGED <<memoryBlocks, vertexData, cacheMap, uploadItem, uploadPtr, uploadEnd,
              uploadNumVertices, uploadP0, dropList, phase, held, life, ret, other,
              copied>>

\* acquire: refCount.postAdd(1)==0
AcquirePostAdd ==
  \E t \in Threads :
    /\ singleton.pc[t] = "out"
    /\ singleton' = [singleton EXCEPT
                       !.refCount = @ + 1,
                       !.pc[t] = IF singleton.refCount = 0 THEN "create" ELSE "return"]
    /\ ArenaUnchanged

\* acquire: theRenderer=new PolylineRenderer
AcquireNew ==
  \E t \in Threads :
    /\ singleton.pc[t] = "create"
    /\ singleton.made < MaxInstances
    /\ singleton' = [singleton EXCEPT
                       !.made = @ + 1,
                       !.alive = @ \cup {singleton.made + 1},
                       !.theRenderer = singleton.made + 1,
                       !.pc[t] = "return"]
    /\ ArenaUnchanged

\* acquire: return theRenderer
AcquireReturn ==
  \E t \in Threads :
    /\ singleton.pc[t] = "return"
    /\ singleton' = [singleton EXCEPT
                       !.got[t] = singleton.theRenderer,
                       !.pc[t] = "in"]
    /\ ArenaUnchanged

\* release: refCount.preSub(1)==0
ReleasePreSub ==
  \E t \in Threads :
    /\ singleton.pc[t] = "in"
    /\ singleton' = [singleton EXCEPT
                       !.refCount = @ - 1,
                       !.got[t] = NullRenderer,
                       !.pc[t] = IF singleton.refCount - 1 = 0 THEN "delete" ELSE "out"]
    /\ ArenaUnchanged

\* release: delete theRenderer
ReleaseDelete ==
  \E t \in Threads :
    /\ singleton.pc[t] = "delete"
    /\ singleton' = [singleton EXCEPT
                       !.alive = @ \ {singleton.theRenderer},
                       !.twice = @ \/ (/\ singleton.theRenderer # NullRenderer
                                       /\ singleton.theRenderer \notin singleton.alive),
                       !.pc[t] = "clear"]
    /\ ArenaUnchanged

\* release: theRenderer=0
ReleaseClear ==
  \E t \in Threads :
    /\ singleton.pc[t] = "clear"
    /\ singleton' = [singleton EXCEPT
                       !.theRenderer = NullRenderer,
                       !.pc[t] = "out"]
    /\ ArenaUnchanged

SingletonNext ==
  \/ AcquirePostAdd
  \/ AcquireNew
  \/ AcquireReturn
  \/ ReleasePreSub
  \/ ReleaseDelete
  \/ ReleaseClear

SpecSingleton == Init /\ [][SingletonNext]_vars

\* C29: in every interleaving of acquire() and release() by one or more
\* threads, each release after the caller's own acquire, a thread that holds
\* a reference holds a non-null pointer to an object that is alive, that
\* object is the only one alive, no object is destroyed twice, and when no
\* thread is inside or holds a reference no object is alive.
C29_OneLiveSingleton ==
  /\ \A t \in Threads :
       singleton.pc[t] = "in" =>
         /\ singleton.got[t] # NullRenderer
         /\ singleton.alive = {singleton.got[t]}
  /\ ~singleton.twice
  /\ (\A t \in Threads : singleton.pc[t] = "out") => singleton.alive = {}

(***************************************************************************)
(* C30: the list of blocks of a context only grows.  No step removes a     *)
(* block or changes the capacity of a block's buffer, also when a release  *)
(* (by cleanCache, by a version replacement, by a growth of the upload     *)
(* session) leaves a block entirely free; a step adds at most one block,   *)
(* and only a step of allocate (known-size draw) or allocateLargest        *)
(* (streaming draw, growth in addVertex) at whose search no free chunk was *)
(* as large as the size it asked for.                                      *)
(***************************************************************************)
C30_BlocksOnlyGrow ==
  [][LET n == Len(memoryBlocks)
         old == cacheMap[ret'.key]
         searched == IF IsDraw(ret') /\ Stale(old, ret'.version)
                       THEN Release(memoryBlocks, old)
                       ELSE memoryBlocks
         request == IF ret'.op = "drawCached" THEN cacheMap'[ret'.key].size
                    ELSE IF ret'.op = "drawStream" THEN (IF ret'.had THEN 2 ELSE 4)
                    ELSE Add((uploadNumVertices' * 4) \div 3, 1)
     IN
     /\ Len(memoryBlocks') \in {n, n + 1}
     /\ Len(vertexData') = Len(memoryBlocks')
     /\ \A b \in 1 .. Len(vertexData') : DOMAIN vertexData'[b] = 0 .. K - 1
     /\ Len(memoryBlocks') = n + 1
          => /\ ret'.op \in {"drawCached", "drawStream", "grow"}
             /\ ~ret'.threw
             /\ LargestFree(searched) < request]_vars

\* cleanCache has just released the only chunk of the second block: the
\* block is entirely free and still there, behind a first block in use.
C30_Witness ==
  /\ ret.op = "cleanCache" /\ ret.removed # {}
  /\ Len(memoryBlocks) = 2
  /\ memoryBlocks[2] = MemoryBlock(K)
  /\ memoryBlocks[1] # MemoryBlock(K)

====
